---- MODULE Spec2Model ----
(***************************************************************************)
(* Storage adapters of the Fastly edge demo: SplitStorageWrapper (edge,    *)
(* src/src/SplitStorageWrapper.js) and createFastlyKVWrapper (sync script, *)
(* src/sync-to-kv.js), over a key-value store holding JSON texts.          *)
(***************************************************************************)
EXTENDS Integers, Sequences, FiniteSets, TLC

(***************************************************************************)
(* JavaScript values.  Every value is a record of the same shape so that   *)
(* any two values can be compared:                                         *)
(*   t  type tag: undefined, null, bool, num, nan, str, arr, obj           *)
(*   n  the number (num), 1/0 (bool)                                       *)
(*   s  the characters of a string (str)                                   *)
(*   a  the elements (arr) or the member values (obj)                      *)
(*   k  the member names (obj)                                             *)
(* Texts (and string values, and keys) are sequences of one-character      *)
(* strings.                                                                *)
(***************************************************************************)
Undefined == [t |-> "undefined", n |-> 0, s |-> <<>>, a |-> <<>>, k |-> <<>>]
Null == [t |-> "null", n |-> 0, s |-> <<>>, a |-> <<>>, k |-> <<>>]
NaN == [t |-> "nan", n |-> 0, s |-> <<>>, a |-> <<>>, k |-> <<>>]
Bool(b) == [t |-> "bool", n |-> IF b THEN 1 ELSE 0, s |-> <<>>, a |-> <<>>, k |-> <<>>]
Num(i) == [t |-> "num", n |-> i, s |-> <<>>, a |-> <<>>, k |-> <<>>]
Str(cs) == [t |-> "str", n |-> 0, s |-> cs, a |-> <<>>, k |-> <<>>]
Arr(vs) == [t |-> "arr", n |-> 0, s |-> <<>>, a |-> vs, k |-> <<>>]
Obj(names, vs) == [t |-> "obj", n |-> 0, s |-> <<>>, a |-> vs, k |-> names]

Digits == <<"0", "1", "2", "3", "4", "5", "6", "7", "8", "9">>

IsDigit(c) == \E d \in 1..10 : Digits[d] = c

DigitVal(c) == (CHOOSE d \in 1..10 : Digits[d] = c) - 1

RECURSIVE NatToChars(_)
NatToChars(m) ==
  IF m < 10 THEN <<Digits[m + 1]>>
  ELSE NatToChars(m \div 10) \o <<Digits[(m % 10) + 1]>>

\* Number-to-string of an integer, as JSON.stringify and String() print it
IntToChars(i) == IF i < 0 THEN <<"-">> \o NatToChars(0 - i) ELSE NatToChars(i)

RECURSIVE Escape(_)
Escape(cs) ==
  IF cs = <<>> THEN <<>>
  ELSE (IF Head(cs) = "\"" \/ Head(cs) = "\\" THEN <<"\\", Head(cs)>> ELSE <<Head(cs)>>)
       \o Escape(Tail(cs))

Quote(cs) == <<"\"">> \o Escape(cs) \o <<"\"">>

\* JSON.stringify(value) for a value other than undefined
RECURSIVE JSON_stringify(_)
RECURSIVE StringifyElems(_)
RECURSIVE StringifyMembers(_, _)
StringifyElems(vs) ==
  IF vs = <<>> THEN <<>>
  ELSE JSON_stringify(Head(vs))
       \o (IF Len(vs) > 1 THEN <<",">> ELSE <<>>) \o StringifyElems(Tail(vs))

StringifyMembers(names, vs) ==
  IF vs = <<>> THEN <<>>
  ELSE Quote(Head(names)) \o <<":">> \o JSON_stringify(Head(vs))
       \o (IF Len(vs) > 1 THEN <<",">> ELSE <<>>) \o StringifyMembers(Tail(names), Tail(vs))

JSON_stringify(v) ==
  CASE v.t = "null" -> <<"n", "u", "l", "l">>
    [] v.t = "undefined" -> <<"n", "u", "l", "l">>
    [] v.t = "nan" -> <<"n", "u", "l", "l">>
    [] v.t = "bool" -> IF v.n = 1 THEN <<"t", "r", "u", "e">> ELSE <<"f", "a", "l", "s", "e">>
    [] v.t = "num" -> IntToChars(v.n)
    [] v.t = "str" -> Quote(v.s)
    [] v.t = "arr" -> <<"[">> \o StringifyElems(v.a) \o <<"]">>
    [] v.t = "obj" -> <<"{">> \o StringifyMembers(v.k, v.a) \o <<"}">>

(***************************************************************************)
(* JSON.parse: a recursive-descent parser over the text.  Each Parse*      *)
(* operator returns [ok, v, i]: whether a value was read at position i0,   *)
(* the value, and the position after it.                                   *)
(***************************************************************************)
PFail == [ok |-> FALSE, v |-> Undefined, i |-> 0]

POk(v, i) == [ok |-> TRUE, v |-> v, i |-> i]

HasLit(txt, i, lit) ==
  /\ i + Len(lit) - 1 <= Len(txt)
  /\ SubSeq(txt, i, i + Len(lit) - 1) = lit

RECURSIVE DigitsEnd(_, _)
\* the position after the run of digits starting at i
DigitsEnd(txt, i) ==
  IF i <= Len(txt) /\ IsDigit(txt[i]) THEN DigitsEnd(txt, i + 1) ELSE i

RECURSIVE DigitsVal(_, _, _)
DigitsVal(txt, i, j) ==
  IF j < i THEN 0 ELSE DigitsVal(txt, i, j - 1) * 10 + DigitVal(txt[j])

\* the number whose digits are at i..j-1; none, or a leading zero, is an error
NumFrom(txt, i, j, neg) ==
  IF j = i THEN PFail
  ELSE IF j > i + 1 /\ txt[i] = "0" THEN PFail
  ELSE IF neg THEN POk(Num(0 - DigitsVal(txt, i, j - 1)), j)
  ELSE POk(Num(DigitsVal(txt, i, j - 1)), j)

ParseNum(txt, i) ==
  IF i <= Len(txt) /\ txt[i] = "-" THEN NumFrom(txt, i + 1, DigitsEnd(txt, i + 1), TRUE)
  ELSE NumFrom(txt, i, DigitsEnd(txt, i), FALSE)

RECURSIVE ParseChars(_, _, _)
\* the characters of a string literal whose opening quote has been read
ParseChars(txt, i, acc) ==
  IF i > Len(txt) THEN PFail
  ELSE IF txt[i] = "\"" THEN POk(Str(acc), i + 1)
  ELSE IF txt[i] = "\\"
    THEN IF i + 1 <= Len(txt) /\ (txt[i + 1] = "\"" \/ txt[i + 1] = "\\")
           THEN ParseChars(txt, i + 2, Append(acc, txt[i + 1]))
           ELSE PFail
  ELSE ParseChars(txt, i + 1, Append(acc, txt[i]))

ParseStr(txt, i) ==
  IF i <= Len(txt) /\ txt[i] = "\"" THEN ParseChars(txt, i + 1, <<>>) ELSE PFail

RECURSIVE ParseValue(_, _)
RECURSIVE ParseElems(_, _, _)
RECURSIVE ElemsAfter(_, _, _)
RECURSIVE ParseMembers(_, _, _, _)
RECURSIVE MembersAfterName(_, _, _, _)
RECURSIVE MembersAfterValue(_, _, _, _)
\* elements after "[" or after a ","
ParseElems(txt, i, acc) == ElemsAfter(txt, ParseValue(txt, i), acc)

\* after the element e: "]" ends the array, "," announces another element
ElemsAfter(txt, e, acc) ==
  IF ~e.ok \/ e.i > Len(txt) THEN PFail
  ELSE IF txt[e.i] = "]" THEN POk(Arr(Append(acc, e.v)), e.i + 1)
  ELSE IF txt[e.i] = "," THEN ParseElems(txt, e.i + 1, Append(acc, e.v))
  ELSE PFail

\* members after "{" or after a ","
ParseMembers(txt, i, names, acc) == MembersAfterName(txt, ParseStr(txt, i), names, acc)

\* after the member name m: ":" and the member value
MembersAfterName(txt, m, names, acc) ==
  IF ~m.ok \/ m.i > Len(txt) \/ txt[m.i] # ":" THEN PFail
  ELSE MembersAfterValue(txt, ParseValue(txt, m.i + 1), Append(names, m.v.s), acc)

\* after the member value e: "}" ends the object, "," announces another member
MembersAfterValue(txt, e, names, acc) ==
  IF ~e.ok \/ e.i > Len(txt) THEN PFail
  ELSE IF txt[e.i] = "}" THEN POk(Obj(names, Append(acc, e.v)), e.i + 1)
  ELSE IF txt[e.i] = "," THEN ParseMembers(txt, e.i + 1, names, Append(acc, e.v))
  ELSE PFail

ParseValue(txt, i) ==
  IF i > Len(txt) THEN PFail
  ELSE IF HasLit(txt, i, <<"n", "u", "l", "l">>) THEN POk(Null, i + 4)
  ELSE IF HasLit(txt, i, <<"t", "r", "u", "e">>) THEN POk(Bool(TRUE), i + 4)
  ELSE IF HasLit(txt, i, <<"f", "a", "l", "s", "e">>) THEN POk(Bool(FALSE), i + 5)
  ELSE IF txt[i] = "\"" THEN ParseStr(txt, i)
  ELSE IF txt[i] = "[" THEN
    IF i + 1 <= Len(txt) /\ txt[i + 1] = "]" THEN POk(Arr(<<>>), i + 2)
    ELSE ParseElems(txt, i + 1, <<>>)
  ELSE IF txt[i] = "{" THEN
    IF i + 1 <= Len(txt) /\ txt[i + 1] = "}" THEN POk(Obj(<<>>, <<>>), i + 2)
    ELSE ParseMembers(txt, i + 1, <<>>, <<>>)
  ELSE ParseNum(txt, i)

\* JSON.parse(text): [ok, v]; ok = FALSE stands for the SyntaxError it throws
Whole(txt, p) ==
  IF p.ok /\ p.i = Len(txt) + 1 THEN [ok |-> TRUE, v |-> p.v]
  ELSE [ok |-> FALSE, v |-> Undefined]

JSON_parse(txt) == Whole(txt, ParseValue(txt, 1))

(***************************************************************************)
(* The JavaScript operators the adapters apply to stored values.           *)
(***************************************************************************)
\* ToBoolean(v), as used by `v || d`, `v && w` and `v ? a : b`
Truthy(v) ==
  CASE v.t = "undefined" -> FALSE
    [] v.t = "null" -> FALSE
    [] v.t = "nan" -> FALSE
    [] v.t = "bool" -> v.n = 1
    [] v.t = "num" -> v.n # 0
    [] v.t = "str" -> v.s # <<>>
    [] v.t = "arr" -> TRUE
    [] v.t = "obj" -> TRUE

\* v || d
OrElse(v, d) == IF Truthy(v) THEN v ELSE d

IsArray(v) == v.t = "arr"

\* SameValueZero: primitives by value, arrays and objects by identity (two
\* separately built ones are never the same)
SameValueZero(v, w) == v = w /\ v.t \notin {"arr", "obj"}

\* Array.prototype.includes
Includes(vs, item) == \E i \in 1..Len(vs) : SameValueZero(vs[i], item)

RECURSIVE Dedupe(_, _)
\* [...new Set(vs)]: first occurrences, in insertion order
Dedupe(vs, acc) ==
  IF vs = <<>> THEN acc
  ELSE Dedupe(Tail(vs), IF Includes(acc, Head(vs)) THEN acc ELSE Append(acc, Head(vs)))

\* whether [...v] is possible: arrays and strings are iterable
Iterable(v) == v.t \in {"arr", "str"}

\* [...v] of an iterable v
Spread(v) == IF v.t = "arr" THEN v.a ELSE [i \in 1..Len(v.s) |-> Str(<<v.s[i]>>)]

RECURSIVE Without(_, _)
\* vs.filter(item => !items.includes(item))
Without(vs, items) ==
  IF vs = <<>> THEN <<>>
  ELSE (IF Includes(items, Head(vs)) THEN <<>> ELSE <<Head(vs)>>) \o Without(Tail(vs), items)

ObjectObject == <<"[", "o", "b", "j", "e", "c", "t", " ", "O", "b", "j", "e", "c", "t", "]">>

RECURSIVE JsToString(_)
RECURSIVE JoinElems(_)
\* Array.prototype.join(","): null and undefined elements print as ""
JoinElems(vs) ==
  IF vs = <<>> THEN <<>>
  ELSE (IF Head(vs).t \in {"null", "undefined"} THEN <<>> ELSE JsToString(Head(vs)))
       \o (IF Len(vs) > 1 THEN <<",">> ELSE <<>>) \o JoinElems(Tail(vs))

\* ToString(v)
JsToString(v) ==
  CASE v.t = "undefined" -> <<"u", "n", "d", "e", "f", "i", "n", "e", "d">>
    [] v.t = "null" -> <<"n", "u", "l", "l">>
    [] v.t = "nan" -> <<"N", "a", "N">>
    [] v.t = "bool" -> IF v.n = 1 THEN <<"t", "r", "u", "e">> ELSE <<"f", "a", "l", "s", "e">>
    [] v.t = "num" -> IntToChars(v.n)
    [] v.t = "str" -> v.s
    [] v.t = "arr" -> JoinElems(v.a)
    [] v.t = "obj" -> ObjectObject

\* StringToNumber of a string without white space: "" is 0, a decimal
\* integer is its value, anything else is NaN
\* the decimal digits at i..Len(cs), as a number
DigitsToNumber(cs, i, neg) ==
  IF i <= Len(cs) /\ DigitsEnd(cs, i) = Len(cs) + 1
    THEN (IF neg THEN Num(0 - DigitsVal(cs, i, Len(cs))) ELSE Num(DigitsVal(cs, i, Len(cs))))
    ELSE NaN

StringToNumber(cs) ==
  IF cs = <<>> THEN Num(0)
  ELSE IF cs[1] = "-" THEN DigitsToNumber(cs, 2, TRUE)
  ELSE IF cs[1] = "+" THEN DigitsToNumber(cs, 2, FALSE)
  ELSE DigitsToNumber(cs, 1, FALSE)

\* ToNumber(v)
JsToNumber(v) ==
  CASE v.t = "undefined" -> NaN
    [] v.t = "null" -> Num(0)
    [] v.t = "nan" -> NaN
    [] v.t = "bool" -> Num(v.n)
    [] v.t = "num" -> v
    [] v.t = "str" -> StringToNumber(v.s)
    [] v.t = "arr" -> StringToNumber(JoinElems(v.a))
    [] v.t = "obj" -> NaN

\* v + w: concatenation when either side's primitive is a string
\* the sum and the difference of two numbers, NaN when either is NaN
NumAdd(a, b) == IF a.t = "nan" \/ b.t = "nan" THEN NaN ELSE Num(a.n + b.n)

NumSub(a, b) == IF a.t = "nan" \/ b.t = "nan" THEN NaN ELSE Num(a.n - b.n)

JsAdd(v, w) ==
  IF v.t \in {"str", "arr", "obj"} \/ w.t \in {"str", "arr", "obj"}
    THEN Str(JsToString(v) \o JsToString(w))
  ELSE NumAdd(JsToNumber(v), JsToNumber(w))

\* a parameter declared `p = d`: d when the argument is omitted
Default(v, d) == IF v.t = "undefined" THEN d ELSE v

\* v - w
JsSub(v, w) == NumSub(JsToNumber(v), JsToNumber(w))

\* -v
JsNeg(v) == JsSub(Num(0), v)

\* set && Array.isArray(set) ? set.includes(item) : false
ItemIn(set, item) ==
  IF Truthy(set) /\ IsArray(set) THEN Bool(Includes(set.a, item)) ELSE Bool(FALSE)

\* set && Array.isArray(set) ? set : []
ItemsOf(set) == IF Truthy(set) /\ IsArray(set) THEN set ELSE Arr(<<>>)

(***************************************************************************)
(* The key-value store: every key is absent or holds a text.  A request to *)
(* the store may fail (the edge KVStore call rejects, the HTTP call        *)
(* rejects or answers with an error status).                               *)
(***************************************************************************)
KeyList == << <<"a">>, <<"b", "a">> >>

Keys == {KeyList[i] : i \in 1..Len(KeyList)}

Absent == [has |-> FALSE, text |-> <<>>]

Entry(txt) == [has |-> TRUE, text |-> txt]

IsPrefix(p, key) == Len(p) <= Len(key) /\ SubSeq(key, 1, Len(p)) = p

RECURSIVE ListFrom(_, _, _)
\* the store's list primitive: the present keys with the prefix, in key order
ListFrom(st, prefix, i) ==
  IF i > Len(KeyList) THEN <<>>
  ELSE (IF st[KeyList[i]].has /\ IsPrefix(prefix, KeyList[i]) THEN <<Str(KeyList[i])>> ELSE <<>>)
       \o ListFrom(st, prefix, i + 1)

\* what an adapter operation hands back: the returned value, whether it
\* raised instead, and the store afterwards
Out(res, raised, st) == [res |-> res, raised |-> raised, st |-> st]

\* Promise.all over reads that complete in the given order: each completion
\* fills the slot of its own index
RECURSIVE PromiseAll(_, _, _)
PromiseAll(vals, order, slots) ==
  IF order = <<>> THEN slots
  ELSE PromiseAll(vals, Tail(order), [slots EXCEPT ![Head(order)] = vals[Head(order)]])

\* try { JSON.parse(text) } catch: the value, or null for a text that is not JSON
ParsedOrNull(p) == IF p.ok THEN p.v ELSE Null

\* what set returns from the outcome w of setValue
SetResult(w) == Out(Bool(w.ok), FALSE, w.st)

(***************************************************************************)
(* SplitStorageWrapper(kvStore), the edge adapter.  h: a kvStore handle    *)
(* was given; fs: the numbers of the store requests of this call that      *)
(* fail (1 the first request, 2 the second, and for getMany i the read of  *)
(* keys[i]).                                                               *)
(***************************************************************************)
Edge_getValue(st, key, bad) ==
  IF bad THEN Null
  ELSE IF ~st[key].has THEN Null
  ELSE IF st[key].text = <<>> THEN Null
  ELSE ParsedOrNull(JSON_parse(st[key].text))

\* the value written with String(value) instead of JSON.stringify(value)
Edge_setValue_String(st, key, value, bad) ==
  IF bad THEN [ok |-> FALSE, st |-> st]
  ELSE [ok |-> TRUE, st |-> [st EXCEPT ![key] = Entry(JsToString(value))]]

\* a put that fails after the entry was written
Edge_setValue_Partial(st, key, value, bad) ==
  [ok |-> ~bad, st |-> [st EXCEPT ![key] = Entry(JSON_stringify(value))]]

Edge_setValue(st, key, value, bad) ==
  IF bad THEN [ok |-> FALSE, st |-> st]
  ELSE [ok |-> TRUE, st |-> [st EXCEPT ![key] = Entry(JSON_stringify(value))]]

Edge_get(st, h, fs, key) == Out(Edge_getValue(st, key, ~h \/ 1 \in fs), FALSE, st)

Edge_set(st, h, fs, key, value) == SetResult(Edge_setValue(st, key, value, ~h \/ 1 \in fs))

Edge_getAndSet(st, h, fs, key, value) ==
  Out(Edge_getValue(st, key, ~h \/ 1 \in fs), FALSE,
      Edge_setValue(st, key, value, ~h \/ 2 \in fs).st)

Edge_del(st, h, fs, key) ==
  IF ~h \/ 1 \in fs THEN Out(Bool(FALSE), FALSE, st)
  ELSE Out(Bool(TRUE), FALSE, [st EXCEPT ![key] = Absent])

Edge_getKeysByPrefix(st, h, fs, prefix) ==
  IF ~h \/ 1 \in fs THEN Out(Arr(<<>>), FALSE, st)
  ELSE Out(Arr(ListFrom(st, prefix, 1)), FALSE, st)

\* the results collected in the order the reads complete
Edge_getMany_Arrival(st, h, fs, keys, order) ==
  IF ~IsArray(keys) THEN Out(Undefined, TRUE, st)
  ELSE Out(Arr([j \in 1..Len(keys.a) |->
                  Edge_getValue(st, keys.a[order[j]].s, ~h \/ order[j] \in fs)]), FALSE, st)

\* keys: an array of keys, or not an array (keys.map then throws, in the try
\* and again in the catch)
Edge_getMany(st, h, fs, keys, order) ==
  IF ~IsArray(keys) THEN Out(Undefined, TRUE, st)
  ELSE Out(Arr(PromiseAll([i \in 1..Len(keys.a) |->
                             Edge_getValue(st, keys.a[i].s, ~h \/ i \in fs)],
                          order, [i \in 1..Len(keys.a) |-> Undefined])), FALSE, st)

\* await setValue(key, newValue); return newValue
Edge_storeNew(st, key, newValue, bad) ==
  Out(newValue, FALSE, Edge_setValue(st, key, newValue, bad).st)

Edge_incr(st, h, fs, key, increment) ==
  Edge_storeNew(st, key,
                JsAdd(OrElse(Edge_getValue(st, key, ~h \/ 1 \in fs), Num(0)),
                      Default(increment, Num(1))),
                ~h \/ 2 \in fs)

\* the body of incr pasted into decr: an addition
Edge_decr_Adds(st, h, fs, key, decrement) ==
  Edge_storeNew(st, key,
                JsAdd(OrElse(Edge_getValue(st, key, ~h \/ 1 \in fs), Num(0)),
                      Default(decrement, Num(1))),
                ~h \/ 2 \in fs)

Edge_decr(st, h, fs, key, decrement) ==
  Edge_storeNew(st, key,
                JsSub(OrElse(Edge_getValue(st, key, ~h \/ 1 \in fs), Num(0)),
                      Default(decrement, Num(1))),
                ~h \/ 2 \in fs)

Edge_itemContains(st, h, fs, key, item) ==
  Out(ItemIn(Edge_getValue(st, key, ~h \/ 1 \in fs), item), FALSE, st)

\* the arrays concatenated without going through a Set
Edge_addTo_Concat(st, key, set, items, bad) ==
  IF ~Iterable(set) \/ ~Iterable(items) THEN Out(Undefined, FALSE, st)
  ELSE Out(Undefined, FALSE,
           Edge_setValue(st, key, Arr(Spread(set) \o Spread(items)), bad).st)

\* updatedSet = [...new Set([...set, ...items])]; await setValue(key, updatedSet)
\* a set or an items that cannot be spread throws inside the try: no write
Edge_addTo(st, key, set, items, bad) ==
  IF ~Iterable(set) \/ ~Iterable(items) THEN Out(Undefined, FALSE, st)
  ELSE Out(Undefined, FALSE,
           Edge_setValue(st, key, Arr(Dedupe(Spread(set) \o Spread(items), <<>>)), bad).st)

Edge_addItems(st, h, fs, key, items) ==
  Edge_addTo(st, key, OrElse(Edge_getValue(st, key, ~h \/ 1 \in fs), Arr(<<>>)), items,
             ~h \/ 2 \in fs)

\* an empty array written when the key holds no array
Edge_removeFrom_Creates(st, key, set, items, bad) ==
  IF ~(Truthy(set) /\ IsArray(set))
    THEN Out(Undefined, FALSE, Edge_setValue(st, key, Arr(<<>>), bad).st)
  ELSE IF set.a # <<>> /\ ~IsArray(items) THEN Out(Undefined, FALSE, st)
  ELSE Out(Undefined, FALSE, Edge_setValue(st, key, Arr(Without(set.a, items.a)), bad).st)

\* if (set && Array.isArray(set)) { filter, setValue }
\* items: an array, or null (items.includes then throws at the first element)
Edge_removeFrom(st, key, set, items, bad) ==
  IF ~(Truthy(set) /\ IsArray(set)) THEN Out(Undefined, FALSE, st)
  ELSE IF set.a # <<>> /\ ~IsArray(items) THEN Out(Undefined, FALSE, st)
  ELSE Out(Undefined, FALSE, Edge_setValue(st, key, Arr(Without(set.a, items.a)), bad).st)

Edge_removeItems(st, h, fs, key, items) ==
  Edge_removeFrom(st, key, Edge_getValue(st, key, ~h \/ 1 \in fs), items, ~h \/ 2 \in fs)

Edge_getItems(st, h, fs, key) ==
  Out(ItemsOf(Edge_getValue(st, key, ~h \/ 1 \in fs)), FALSE, st)

Edge_connect(st, h) == IF ~h THEN Out(Undefined, TRUE, st) ELSE Out(Undefined, FALSE, st)

Edge_disconnect(st) == Out(Undefined, FALSE, st)

Edge_pushItems(st, key, items) == Out(Undefined, FALSE, st)

Edge_popItems(st, key, count) == Out(Arr(<<>>), FALSE, st)

Edge_getItemsCount(st, key) == Out(Num(0), FALSE, st)

(***************************************************************************)
(* createFastlyKVWrapper(storeId, apiToken), the adapter of the sync       *)
(* script, over the store's HTTP API.  fs as above: a failing request is a *)
(* rejected fetch or a response that is not ok (and not 404).              *)
(***************************************************************************)
Sync_getValue(st, key, bad) ==
  IF bad THEN Null
  ELSE IF ~st[key].has THEN Null
  ELSE IF st[key].text = <<>> THEN Null
  ELSE ParsedOrNull(JSON_parse(st[key].text))

Sync_setValue(st, key, value, bad) ==
  IF bad THEN [ok |-> FALSE, st |-> st]
  ELSE [ok |-> TRUE, st |-> [st EXCEPT ![key] = Entry(JSON_stringify(value))]]

Sync_get(st, fs, key) == Out(Sync_getValue(st, key, 1 \in fs), FALSE, st)

Sync_set(st, fs, key, value) == SetResult(Sync_setValue(st, key, value, 1 \in fs))

Sync_getAndSet(st, fs, key, value) ==
  Out(Sync_getValue(st, key, 1 \in fs), FALSE, Sync_setValue(st, key, value, 2 \in fs).st)

\* a 404 answer treated as a failure
Sync_del_Strict(st, fs, key) ==
  IF 1 \in fs THEN Out(Bool(FALSE), FALSE, st)
  ELSE IF ~st[key].has THEN Out(Bool(FALSE), FALSE, st)
  ELSE Out(Bool(TRUE), FALSE, [st EXCEPT ![key] = Absent])

\* the store answers 404 to the DELETE of an absent key
Sync_del(st, fs, key) ==
  IF 1 \in fs THEN Out(Bool(FALSE), FALSE, st)
  ELSE IF ~st[key].has THEN Out(Bool(TRUE), FALSE, st)
  ELSE Out(Bool(TRUE), FALSE, [st EXCEPT ![key] = Absent])

\* the prefix left out of the list request
Sync_getKeysByPrefix_All(st, fs, prefix) ==
  IF 1 \in fs THEN Out(Arr(<<>>), FALSE, st)
  ELSE Out(Arr(ListFrom(st, <<>>, 1)), FALSE, st)

Sync_getKeysByPrefix(st, fs, prefix) ==
  IF 1 \in fs THEN Out(Arr(<<>>), FALSE, st)
  ELSE Out(Arr(ListFrom(st, prefix, 1)), FALSE, st)

\* no try here: keys that is not an array raises
Sync_getMany(st, fs, keys, order) ==
  IF ~IsArray(keys) THEN Out(Undefined, TRUE, st)
  ELSE Out(Arr(PromiseAll([i \in 1..Len(keys.a) |->
                             Sync_getValue(st, keys.a[i].s, i \in fs)],
                          order, [i \in 1..Len(keys.a) |-> Undefined])), FALSE, st)

\* await setValue(key, newValue); return newValue
Sync_storeNew(st, key, newValue, bad) ==
  Out(newValue, FALSE, Sync_setValue(st, key, newValue, bad).st)

Sync_incr(st, fs, key, increment) ==
  Sync_storeNew(st, key,
                JsAdd(OrElse(Sync_getValue(st, key, 1 \in fs), Num(0)),
                      Default(increment, Num(1))),
                2 \in fs)

Sync_decr(st, fs, key, decrement) ==
  Sync_storeNew(st, key,
                JsSub(OrElse(Sync_getValue(st, key, 1 \in fs), Num(0)),
                      Default(decrement, Num(1))),
                2 \in fs)

Sync_itemContains(st, fs, key, item) ==
  Out(ItemIn(Sync_getValue(st, key, 1 \in fs), item), FALSE, st)

\* the stored array replaced by the items instead of merged with them
Sync_addTo_Replace(st, key, set, items, bad) ==
  IF ~Iterable(set) \/ ~Iterable(items) THEN Out(Undefined, TRUE, st)
  ELSE Out(Undefined, FALSE,
           Sync_setValue(st, key, Arr(Dedupe(Spread(items), <<>>)), bad).st)

\* updatedSet = [...new Set([...set, ...items])]; await setValue(key, updatedSet)
\* no try here: a set or an items that cannot be spread raises
Sync_addTo(st, key, set, items, bad) ==
  IF ~Iterable(set) \/ ~Iterable(items) THEN Out(Undefined, TRUE, st)
  ELSE Out(Undefined, FALSE,
           Sync_setValue(st, key, Arr(Dedupe(Spread(set) \o Spread(items), <<>>)), bad).st)

Sync_addItems(st, fs, key, items) ==
  Sync_addTo(st, key, OrElse(Sync_getValue(st, key, 1 \in fs), Arr(<<>>)), items, 2 \in fs)

\* if (set && Array.isArray(set)) { filter, setValue }
\* no try here: items that is not an array raises at the first element
Sync_removeFrom(st, key, set, items, bad) ==
  IF ~(Truthy(set) /\ IsArray(set)) THEN Out(Undefined, FALSE, st)
  ELSE IF set.a # <<>> /\ ~IsArray(items) THEN Out(Undefined, TRUE, st)
  ELSE Out(Undefined, FALSE, Sync_setValue(st, key, Arr(Without(set.a, items.a)), bad).st)

Sync_removeItems(st, fs, key, items) ==
  Sync_removeFrom(st, key, Sync_getValue(st, key, 1 \in fs), items, 2 \in fs)

Sync_getItems(st, fs, key) == Out(ItemsOf(Sync_getValue(st, key, 1 \in fs)), FALSE, st)

Sync_connect(st) == Out(Undefined, FALSE, st)

Sync_disconnect(st) == Out(Undefined, FALSE, st)

\* the items written under the key
Sync_pushItems_Writes(st, key, items) ==
  Out(Undefined, FALSE, Sync_setValue(st, key, items, FALSE).st)

Sync_pushItems(st, key, items) == Out(Undefined, FALSE, st)

Sync_popItems(st, key, count) == Out(Arr(<<>>), FALSE, st)

Sync_getItemsCount(st, key) == Out(Num(0), FALSE, st)

(***************************************************************************)
(* The requests one call sends to the store, in order.  getValue and       *)
(* setValue hold no loop: each sends its request once, whether or not the  *)
(* request fails.  Without a kvStore handle the edge adapter throws on     *)
(* kvStore.get / put / delete / list before anything is sent.              *)
(***************************************************************************)
\* getValue sending its request again after a failure
Edge_getValue_requests_Retry(h, bad) ==
  IF ~h THEN <<>> ELSE IF bad THEN <<"get", "get">> ELSE <<"get">>

Edge_getValue_requests(h, bad) == IF ~h THEN <<>> ELSE <<"get">>

Edge_setValue_requests(h, bad) == IF ~h THEN <<>> ELSE <<"put">>

\* the reads of getMany: one getValue per key
RECURSIVE Edge_getMany_requests(_, _, _, _)
Edge_getMany_requests(h, fs, n, i) ==
  IF i > n THEN <<>>
  ELSE Edge_getValue_requests(h, i \in fs) \o Edge_getMany_requests(h, fs, n, i + 1)

\* addItems reaches setValue when the spread of set and of items did not throw
Edge_addTo_writes(set, items) == Iterable(set) /\ Iterable(items)

\* removeItems reaches setValue when set is an array and the filter did not throw
Edge_removeFrom_writes(set, items) ==
  Truthy(set) /\ IsArray(set) /\ (set.a = <<>> \/ IsArray(items))

Edge_requests(st, h, fs, op, key, arg) ==
  CASE op \in {"get", "itemContains", "getItems"} -> Edge_getValue_requests(h, 1 \in fs)
    [] op = "set" -> Edge_setValue_requests(h, 1 \in fs)
    [] op = "del" -> IF h THEN <<"delete">> ELSE <<>>
    [] op = "getKeysByPrefix" -> IF h THEN <<"list">> ELSE <<>>
    [] op = "getMany" ->
         IF IsArray(arg) THEN Edge_getMany_requests(h, fs, Len(arg.a), 1) ELSE <<>>
    [] op \in {"getAndSet", "incr", "decr"} ->
         Edge_getValue_requests(h, 1 \in fs) \o Edge_setValue_requests(h, 2 \in fs)
    [] op = "addItems" ->
         Edge_getValue_requests(h, 1 \in fs)
           \o (IF Edge_addTo_writes(OrElse(Edge_getValue(st, key, ~h \/ 1 \in fs), Arr(<<>>)), arg)
                 THEN Edge_setValue_requests(h, 2 \in fs) ELSE <<>>)
    [] op = "removeItems" ->
         Edge_getValue_requests(h, 1 \in fs)
           \o (IF Edge_removeFrom_writes(Edge_getValue(st, key, ~h \/ 1 \in fs), arg)
                 THEN Edge_setValue_requests(h, 2 \in fs) ELSE <<>>)
    [] OTHER -> <<>>

Sync_getValue_requests(bad) == <<"get">>

Sync_setValue_requests(bad) == <<"put">>

RECURSIVE Sync_getMany_requests(_, _, _)
Sync_getMany_requests(fs, n, i) ==
  IF i > n THEN <<>>
  ELSE Sync_getValue_requests(i \in fs) \o Sync_getMany_requests(fs, n, i + 1)

Sync_addTo_writes(set, items) == Iterable(set) /\ Iterable(items)

Sync_removeFrom_writes(set, items) ==
  Truthy(set) /\ IsArray(set) /\ (set.a = <<>> \/ IsArray(items))

Sync_requests(st, fs, op, key, arg) ==
  CASE op \in {"get", "itemContains", "getItems"} -> Sync_getValue_requests(1 \in fs)
    [] op = "set" -> Sync_setValue_requests(1 \in fs)
    [] op = "del" -> <<"delete">>
    [] op = "getKeysByPrefix" -> <<"list">>
    [] op = "getMany" ->
         IF IsArray(arg) THEN Sync_getMany_requests(fs, Len(arg.a), 1) ELSE <<>>
    [] op \in {"getAndSet", "incr", "decr"} ->
         Sync_getValue_requests(1 \in fs) \o Sync_setValue_requests(2 \in fs)
    [] op = "addItems" ->
         Sync_getValue_requests(1 \in fs)
           \o (IF Sync_addTo_writes(OrElse(Sync_getValue(st, key, 1 \in fs), Arr(<<>>)), arg)
                 THEN Sync_setValue_requests(2 \in fs) ELSE <<>>)
    [] op = "removeItems" ->
         Sync_getValue_requests(1 \in fs)
           \o (IF Sync_removeFrom_writes(Sync_getValue(st, key, 1 \in fs), arg)
                 THEN Sync_setValue_requests(2 \in fs) ELSE <<>>)
    [] OTHER -> <<>>

(***************************************************************************)
(* The state machine: one store per adapter, both starting from the same   *)
(* content; every step is one call of an adapter operation, made with the  *)
(* same arguments and the same failing requests on both adapters.  A run   *)
(* drives one part of the storage interface (its workload): plain values,  *)
(* counters, sets or queues.                                               *)
(***************************************************************************)
VARIABLES
  workload,  \* the part of the interface the caller drives in this run
  store,     \* store[ad][key]: the entry of key in the store behind adapter ad
  hasStore,  \* whether SplitStorageWrapper was given a kvStore handle
  last,      \* the last call: operation, arguments, failures, results, store before
  prev,      \* for a get, addItems, popItems or getItemsCount: the call before it,
             \* when that was a set, del, addItems or pushItems without failure,
             \* or, for a get, a set whose put failed
  added,     \* added[ad][key]: what is known of key from its history (see NextAdded)
  service,   \* the edge service: its bindings, and the request it is handling
  script,    \* one run of the sync script: environment, position, output, exit code
  calls      \* concurrent calls on one key: each call's position and what it read

vars == <<workload, store, hasStore, last, prev, added, service, script, calls>>

\* the parts of the system a run does not exercise
NoService == [pc |-> "off"]

NoScript == [pc |-> "off"]

NoCalls == [ad |-> "none"]

Adapters == {"edge", "sync"}

\* largest magnitude of a stored number
MaxNum == 2
\* longest stored string
MaxStrLen == 2

X == Str(<<"x">>)
Y == Str(<<"y">>)
Z == Str(<<"z">>)

\* the values written by set and getAndSet
SetValues == {Null, Num(1), Str(<<"\"">>), Arr(<<X, X>>), Obj(<< <<"a">> >>, <<Num(1)>>)}

\* the items arguments: arrays of strings, and a missing argument
ItemArgs == {Arr(<<X, Y>>), Arr(<<Y, Z>>), Null}

\* increment, decrement: omitted, or a number
Amounts == {Undefined, Num(0 - 1)}

Prefixes == {<<>>, <<"a">>, <<"b">>}

\* what a key may hold at the start: nothing, an empty text, a text that is
\* not JSON, a JSON text
InitEntries == {Absent, Entry(<<>>), Entry(<<"x">>), Entry(<<"1">>)}

\* the keys the calls write to; the other keys are only read and deleted
WriteKeys == {KeyList[1]}

\* the keys arguments of getMany: arrays of keys, and a missing argument
KeyArgs ==
  {Arr(<<>>), Arr(<<Str(KeyList[2])>>), Arr(<<Str(KeyList[1]), Str(KeyList[2])>>),
   Null}

\* the operations each workload calls
WorkloadOps ==
  [values |-> {"get", "set", "getAndSet", "del", "getKeysByPrefix", "getMany"},
   counters |-> {"incr", "decr", "get", "set", "del"},
   sets |-> {"addItems", "removeItems", "getItems", "itemContains", "set", "del"},
   queues |-> {"pushItems", "popItems", "getItemsCount", "connect", "disconnect",
               "get", "set", "del"}]

Workloads == DOMAIN WorkloadOps

Perms(m) == {f \in [1..m -> 1..m] : \A i, j \in 1..m : f[i] = f[j] => i = j}

Range(f) == {f[i] : i \in DOMAIN f}

NoPrev ==
  [op |-> "none", key |-> <<>>, arg |-> Undefined,
   held |-> [ad \in {"edge", "sync"} |-> Undefined]]
NoCall ==
  [op |-> "none", key |-> <<>>, arg |-> Undefined, fs |-> {},
   order |-> <<>>,
   res |-> [ad \in Adapters |-> Undefined], raised |-> [ad \in Adapters |-> FALSE],
   reqs |-> [ad \in Adapters |-> <<>>],
   before |-> store]

Unknown == [pure |-> FALSE, known |-> FALSE, elems |-> {}]

Fresh == [pure |-> TRUE, known |-> TRUE, elems |-> {}]

Init ==
  /\ workload \in Workloads
  /\ \E st \in [Keys -> InitEntries] : store = [ad \in Adapters |-> st]
  /\ hasStore \in (IF workload = "queues" THEN BOOLEAN ELSE {TRUE})
  /\ last = [NoCall EXCEPT !.before = store]
  /\ prev = NoPrev
  /\ added = [ad \in Adapters |-> [key \in Keys |-> IF store[ad][key].has THEN Unknown ELSE Fresh]]
  /\ service = NoService
  /\ script = NoScript
  /\ calls = NoCalls

\* the call was made without any failure of the store and did not raise
Clean(l, ad) == l.fs = {} /\ (ad = "edge" => hasStore) /\ ~l.raised[ad]

CleanBoth(l) == \A ad \in Adapters : Clean(l, ad)

\* the value a text decodes to, as getValue reads it
Decoded(e) == IF e.has /\ e.text # <<>> THEN ParsedOrNull(JSON_parse(e.text)) ELSE Null

\* what is kept of a call for the call that follows it: a set, del, addItems
\* or pushItems without failure, or a set whose put failed ("setFailed", with
\* what its key held before it)
Summary(l) ==
  IF l.op \in {"set", "del", "addItems", "pushItems"} /\ CleanBoth(l)
    THEN [NoPrev EXCEPT !.op = l.op, !.key = l.key, !.arg = l.arg]
  ELSE IF l.op = "set" /\ 1 \in l.fs
    THEN [op |-> "setFailed", key |-> l.key, arg |-> l.arg,
          held |-> [ad \in Adapters |-> Decoded(l.before[ad][l.key])]]
  ELSE NoPrev

\* the bounds of the model on the values incr and decr compute
Small(v) ==
  /\ v.t = "num" => (v.n <= MaxNum /\ 0 - v.n <= MaxNum)
  /\ v.t = "str" => Len(v.s) <= MaxStrLen

\* History of a key behind one adapter.  pure: the key was absent and since
\* then only addItems calls wrote to it.  known: moreover none of them met a
\* failure, and elems is the set of all items they were given.
NextAdded(old, op, arg, clean, after) ==
  CASE op = "addItems" ->
         IF clean /\ IsArray(arg)
           THEN [old EXCEPT !.elems = IF old.known THEN old.elems \cup Range(arg.a) ELSE {}]
           ELSE [pure |-> old.pure, known |-> FALSE, elems |-> {}]
    [] op = "del" -> IF after.has THEN old ELSE Fresh
    [] op \in {"set", "getAndSet", "incr", "decr", "removeItems"} -> Unknown
    [] OTHER -> old

\* one call, with the outcome e of the edge adapter and s of the sync adapter
Call(op, key, arg, fs, order, e, s) ==
  /\ op \in WorkloadOps[workload]
  /\ op \in {"incr", "decr"} => (Small(e.res) /\ Small(s.res))
  /\ store' = [edge |-> e.st, sync |-> s.st]
  /\ last' = [op |-> op, key |-> key, arg |-> arg, fs |-> fs, order |-> order,
              res |-> [edge |-> e.res, sync |-> s.res],
              raised |-> [edge |-> e.raised, sync |-> s.raised],
              reqs |-> [edge |-> Edge_requests(store.edge, hasStore, fs, op, key, arg),
                        sync |-> Sync_requests(store.sync, fs, op, key, arg)],
              before |-> store]
  /\ prev' = IF op \in {"get", "addItems", "popItems", "getItemsCount"}
                   /\ (op # "get" => ~(last.op = "set" /\ 1 \in last.fs))
                THEN Summary(last) ELSE NoPrev
  /\ added' = [ad \in Adapters |-> [k \in Keys |->
                 IF k # key THEN added[ad][k]
                 ELSE NextAdded(added[ad][k], op, arg,
                                fs = {} /\ (ad = "edge" => hasStore)
                                  /\ ~(IF ad = "edge" THEN e.raised ELSE s.raised),
                                IF ad = "edge" THEN e.st[k] ELSE s.st[k])]]
  /\ UNCHANGED <<workload, hasStore, service, script, calls>>

get ==
  \E key \in Keys, fs \in SUBSET {1} :
    Call("get", key, Undefined, fs, <<>>,
         Edge_get(store.edge, hasStore, fs, key), Sync_get(store.sync, fs, key))

set ==
  \E key \in WriteKeys, value \in SetValues, fs \in SUBSET {1} :
    Call("set", key, value, fs, <<>>,
         Edge_set(store.edge, hasStore, fs, key, value), Sync_set(store.sync, fs, key, value))

getAndSet ==
  \E key \in WriteKeys, value \in SetValues, fs \in SUBSET {1, 2} :
    Call("getAndSet", key, value, fs, <<>>,
         Edge_getAndSet(store.edge, hasStore, fs, key, value),
         Sync_getAndSet(store.sync, fs, key, value))

del ==
  \E key \in Keys, fs \in SUBSET {1} :
    Call("del", key, Undefined, fs, <<>>,
         Edge_del(store.edge, hasStore, fs, key), Sync_del(store.sync, fs, key))

getKeysByPrefix ==
  \E prefix \in Prefixes, fs \in SUBSET {1} :
    Call("getKeysByPrefix", prefix, Undefined, fs, <<>>,
         Edge_getKeysByPrefix(store.edge, hasStore, fs, prefix),
         Sync_getKeysByPrefix(store.sync, fs, prefix))

getMany ==
  \E keys \in KeyArgs :
    \E order \in Perms(Len(keys.a)), fs \in SUBSET (1..Len(keys.a)) :
      Call("getMany", <<>>, keys, fs, order,
           Edge_getMany(store.edge, hasStore, fs, keys, order),
           Sync_getMany(store.sync, fs, keys, order))

incr ==
  \E key \in WriteKeys, increment \in Amounts, fs \in SUBSET {1, 2} :
    Call("incr", key, increment, fs, <<>>,
         Edge_incr(store.edge, hasStore, fs, key, increment),
         Sync_incr(store.sync, fs, key, increment))

decr ==
  \E key \in WriteKeys, decrement \in Amounts, fs \in SUBSET {1, 2} :
    Call("decr", key, decrement, fs, <<>>,
         Edge_decr(store.edge, hasStore, fs, key, decrement),
         Sync_decr(store.sync, fs, key, decrement))

itemContains ==
  \E key \in Keys, item \in {X}, fs \in SUBSET {1} :
    Call("itemContains", key, item, fs, <<>>,
         Edge_itemContains(store.edge, hasStore, fs, key, item),
         Sync_itemContains(store.sync, fs, key, item))

addItems ==
  \E key \in WriteKeys, items \in ItemArgs, fs \in SUBSET {1, 2} :
    Call("addItems", key, items, fs, <<>>,
         Edge_addItems(store.edge, hasStore, fs, key, items),
         Sync_addItems(store.sync, fs, key, items))

removeItems ==
  \E key \in WriteKeys, items \in ItemArgs, fs \in SUBSET {1, 2} :
    Call("removeItems", key, items, fs, <<>>,
         Edge_removeItems(store.edge, hasStore, fs, key, items),
         Sync_removeItems(store.sync, fs, key, items))

getItems ==
  \E key \in Keys, fs \in SUBSET {1} :
    Call("getItems", key, Undefined, fs, <<>>,
         Edge_getItems(store.edge, hasStore, fs, key), Sync_getItems(store.sync, fs, key))

connect ==
  Call("connect", <<>>, Undefined, {}, <<>>,
       Edge_connect(store.edge, hasStore), Sync_connect(store.sync))

disconnect ==
  Call("disconnect", <<>>, Undefined, {}, <<>>,
       Edge_disconnect(store.edge), Sync_disconnect(store.sync))

pushItems ==
  \E key \in WriteKeys, items \in {Arr(<<X, Y>>)} :
    Call("pushItems", key, items, {}, <<>>,
         Edge_pushItems(store.edge, key, items), Sync_pushItems(store.sync, key, items))

popItems ==
  \E key \in Keys, count \in {Num(1)} :
    Call("popItems", key, count, {}, <<>>,
         Edge_popItems(store.edge, key, count), Sync_popItems(store.sync, key, count))

getItemsCount ==
  \E key \in Keys :
    Call("getItemsCount", key, Undefined, {}, <<>>,
         Edge_getItemsCount(store.edge, key), Sync_getItemsCount(store.sync, key))

Next ==
  \/ get \/ set \/ getAndSet \/ del \/ getKeysByPrefix \/ getMany
  \/ incr \/ decr \/ itemContains \/ addItems \/ removeItems \/ getItems
  \/ connect \/ disconnect \/ pushItems \/ popItems \/ getItemsCount

Spec == Init /\ [][Next]_vars

(***************************************************************************)
(* The edge service: getConfig, and the fetch handler with its three       *)
(* routes, for one request.  A handler runs up to the point where it waits *)
(* for the SDK; the SDK's signals and the end of the evaluation are steps  *)
(* of their own.                                                           *)
(***************************************************************************)
DEFAULTS ==
  [SPLIT_SDK_KEY |-> Str(<<"<", "Y", "O", "U", "R", "-", "S", "E", "R", "V", "E", "R", "-", "S", "I", "D", "E", "-", "S", "D", "K", "-", "K", "E", "Y", ">">>),
   FEATURE_FLAG_NAME |-> Str(<<"m", "y", "-", "f", "e", "a", "t", "u", "r", "e", "-", "f", "l", "a", "g">>),
   KV_STORE_NAME |-> Str(<<"s", "p", "l", "i", "t", "-", "s", "t", "o", "r", "a", "g", "e">>),
   DEFAULT_USER_KEY |-> Str(<<"u", "s", "e", "r", "-", "1", "2", "3">>)]

ConfigFields == {"FEATURE_FLAG_NAME", "KV_STORE_NAME", "DEFAULT_USER_KEY"}

\* configStore?.get(name): undefined without a config store, null for a
\* missing entry
ConfigGet(cfg, name) == IF cfg.avail THEN cfg.entries[name] ELSE Undefined

\* the fields read with ?? in place of ||: an empty value kept
getConfig_Nullish(sec, cfg) ==
  [SPLIT_SDK_KEY |->
     IF sec.avail /\ sec.entry.t # "null" THEN sec.entry ELSE DEFAULTS.SPLIT_SDK_KEY,
   FEATURE_FLAG_NAME |->
     IF ConfigGet(cfg, "FEATURE_FLAG_NAME").t \in {"null", "undefined"}
       THEN DEFAULTS.FEATURE_FLAG_NAME ELSE ConfigGet(cfg, "FEATURE_FLAG_NAME"),
   KV_STORE_NAME |->
     IF ConfigGet(cfg, "KV_STORE_NAME").t \in {"null", "undefined"}
       THEN DEFAULTS.KV_STORE_NAME ELSE ConfigGet(cfg, "KV_STORE_NAME"),
   DEFAULT_USER_KEY |->
     IF ConfigGet(cfg, "DEFAULT_USER_KEY").t \in {"null", "undefined"}
       THEN DEFAULTS.DEFAULT_USER_KEY ELSE ConfigGet(cfg, "DEFAULT_USER_KEY")]

\* sec: the secret store (avail: it opens and answers; entry: the plaintext of
\* its SPLIT_SDK_KEY entry, null without one).  cfg: the config store.
getConfig(sec, cfg) ==
  [SPLIT_SDK_KEY |->
     IF sec.avail /\ sec.entry.t # "null" THEN sec.entry ELSE DEFAULTS.SPLIT_SDK_KEY,
   FEATURE_FLAG_NAME |->
     OrElse(ConfigGet(cfg, "FEATURE_FLAG_NAME"), DEFAULTS.FEATURE_FLAG_NAME),
   KV_STORE_NAME |-> OrElse(ConfigGet(cfg, "KV_STORE_NAME"), DEFAULTS.KV_STORE_NAME),
   DEFAULT_USER_KEY |->
     OrElse(ConfigGet(cfg, "DEFAULT_USER_KEY"), DEFAULTS.DEFAULT_USER_KEY)]

\* what getConfig writes to the console
getConfig_log(sec, cfg) ==
  (IF sec.avail THEN <<>> ELSE <<"Secret Store not available for SDK key, using default">>)
    \o (IF cfg.avail THEN <<>> ELSE <<"Config Store not available, using defaults">>)

\* config.SPLIT_SDK_KEY.startsWith('<YOUR')
NotConfigured(config) == IsPrefix(<<"<", "Y", "O", "U", "R">>, config.SPLIT_SDK_KEY.s)

Response(status, type, kind, parts) ==
  [status |-> status, type |-> type, body |-> [kind |-> kind, parts |-> parts]]

NoResponse == Response(0, "", "", <<>>)

TextPlain == "text/plain"

TextHtml == "text/html; charset=utf-8"

\* the route of /sync mistaken for the status route
Route_Sync(pathname) ==
  CASE pathname = "/" -> "handleHomePage"
    [] pathname = "/get-treatment" -> "handleGetTreatment"
    [] pathname \in {"/status", "/sync"} -> "handleStatus"
    [] OTHER -> "default"

\* switch (url.pathname)
Route(pathname) ==
  CASE pathname = "/" -> "handleHomePage"
    [] pathname = "/get-treatment" -> "handleGetTreatment"
    [] pathname = "/status" -> "handleStatus"
    [] OTHER -> "default"

\* the body shows whether the SDK key is configured, and the other settings
handleHomePage(config) ==
  Response(200, TextHtml, "home",
           <<Bool(~NotConfigured(config)), config.FEATURE_FLAG_NAME,
             config.KV_STORE_NAME, config.DEFAULT_USER_KEY>>)

\* listing: kvStore.list fails, or gives the first keys of the store
handleStatus(listing, config) ==
  IF listing = "fails" THEN Response(500, TextPlain, "Error checking status", <<>>)
  ELSE Response(200, TextHtml, "status",
                <<config.KV_STORE_NAME, Bool(listing = "data"),
                  Bool(~NotConfigured(config)), config.FEATURE_FLAG_NAME,
                  config.DEFAULT_USER_KEY>>)

\* the key read from a parameter the URL never carries
ResolveKey_WrongName(url, config) == OrElse(Null, config.DEFAULT_USER_KEY)

\* the key taken from the URL alone, without the configured default
ResolveKey_ParamOnly(url, config) == url.key

\* url.searchParams.get("key") || config.DEFAULT_USER_KEY
ResolveKey(url, config) == OrElse(url.key, config.DEFAULT_USER_KEY)

\* url.searchParams.get("feature-flag") || config.FEATURE_FLAG_NAME
ResolveFlag(url, config) == OrElse(url.flag, config.FEATURE_FLAG_NAME)

\* the SDK key not looked at before the client is made
Checks_NoSdkKey(key, config) ==
  IF ~Truthy(key) THEN Response(400, TextPlain, "Error: No user key provided", <<>>)
  ELSE NoResponse

\* the two checks before the try block: the answer they return, or none
Checks(key, config) ==
  IF ~Truthy(key) THEN Response(400, TextPlain, "Error: No user key provided", <<>>)
  ELSE IF NotConfigured(config)
    THEN Response(500, TextPlain, "Error: Harness FME SDK key not configured.", <<>>)
  ELSE NoResponse

\* the client made at once ready for getTreatment, without the wait
Constructed_NoWait(sv, key, flag) ==
  [sv EXCEPT !.pc = "evaluating", !.key = key, !.featureFlagName = flag,
             !.events = <<"construct", "getTreatment">>]

\* SplitFactory({core: {authorizationKey, key}, ...}); factory.client(); the
\* handler then waits for a signal of the client
Constructed(sv, key, flag) ==
  [sv EXCEPT !.pc = "waiting", !.key = key, !.featureFlagName = flag,
             !.events = <<"construct">>]

Answered(sv, response) == [sv EXCEPT !.pc = "done", !.response = response]

\* the catch of handleGetTreatment
CatchResponse == Response(500, TextPlain, "Error evaluating feature flag", <<>>)

\* handleGetTreatment up to its wait.  factoryThrows: SplitFactory or
\* factory.client throws
handleGetTreatment(sv, url, config, factoryThrows) ==
  IF Checks(ResolveKey(url, config), config) # NoResponse
    THEN Answered(sv, Checks(ResolveKey(url, config), config))
  ELSE IF factoryThrows
    THEN Answered([sv EXCEPT !.log = @ \o <<"Error getting treatment:">>], CatchResponse)
  ELSE Constructed(sv, ResolveKey(url, config), ResolveFlag(url, config))

\* the service as a fetch event finds it: the bindings kept, the rest reset
Fetched(sv, url, config) ==
  [sv EXCEPT !.pc = "handling", !.request = url, !.config = config,
             !.key = Undefined, !.featureFlagName = Undefined,
             !.events = <<>>, !.reads = 0, !.response = NoResponse,
             !.log = <<"FASTLY_SERVICE_VERSION:">>
                       \o getConfig_log(sv.secretStore, sv.configStore)]

\* handleRequest after getConfig: new KVStore(config.KV_STORE_NAME), then the
\* switch on the path
Routed(sv, url, config, listing, factoryThrows) ==
  IF ~sv.kvExists
    THEN Answered(sv, Response(500, TextPlain, "Error: KV Store not found",
                               <<config.KV_STORE_NAME>>))
  ELSE CASE Route(url.pathname) = "handleHomePage" -> Answered(sv, handleHomePage(config))
         [] Route(url.pathname) = "handleGetTreatment" ->
              handleGetTreatment(sv, url, config, factoryThrows)
         [] Route(url.pathname) = "handleStatus" ->
              Answered(sv, handleStatus(listing, config))
         [] OTHER -> Answered(sv, Response(404, TextPlain, "Not found", <<>>))

\* the reads the SDK makes through the storage wrapper, counted up to
MaxReads == 1

Pathnames == {"/", "/get-treatment", "/status", "/sync"}

\* a query parameter: absent, empty, or given
Params == {Null, Str(<<>>), Str(<<"u">>)}

Listings == {"fails", "empty", "data"}

Treatments == {"on", "control"}

\* the plaintext of the secret: none, empty, a key, a text that begins like
\* the placeholder
SecretEntries == {Null, Str(<<>>), Str(<<"s", "k">>), Str(<<"<", "Y", "O", "U", "R", "S">>)}

SecretStores ==
  {[avail |-> FALSE, entry |-> Null]} \cup {[avail |-> TRUE, entry |-> e] : e \in SecretEntries}

\* an entry of the config store: missing, empty, or a value
ConfigEntries == {Null, Str(<<>>), Str(<<"c">>)}

ConfigStores ==
  {[avail |-> FALSE, entries |-> [f \in ConfigFields |-> Null]]}
    \cup {[avail |-> TRUE, entries |-> es] : es \in [ConfigFields -> ConfigEntries]}

NoRequest == [pathname |-> "", key |-> Null, flag |-> Null]

\* the adapters' state machine at rest
AdaptersIdle ==
  /\ workload = "none"
  /\ store = [ad \in Adapters |-> [key \in Keys |-> Absent]]
  /\ hasStore = TRUE
  /\ last = NoCall
  /\ prev = NoPrev
  /\ added = [ad \in Adapters |-> [key \in Keys |-> Fresh]]

ServiceInit ==
  /\ AdaptersIdle
  /\ script = NoScript
  /\ calls = NoCalls
  /\ \E sec \in SecretStores, cfg \in ConfigStores, kv \in BOOLEAN :
       service = [pc |-> "idle", secretStore |-> sec, configStore |-> cfg,
                  kvExists |-> kv, request |-> NoRequest,
                  config |-> DEFAULTS,
                  key |-> Undefined, featureFlagName |-> Undefined,
                  events |-> <<>>, reads |-> 0, response |-> NoResponse, log |-> <<>>]

ServiceStep(sv) ==
  /\ service' = sv
  /\ UNCHANGED <<workload, store, hasStore, last, prev, added, script, calls>>

\* a fetch event (the platform starts one instance of the service for each
\* request): getConfig, the KV store opened, the route taken
handleRequest ==
  /\ service.pc = "idle"
  /\ \E pathname \in Pathnames, key \in Params, flag \in Params,
        listing \in Listings, factoryThrows \in BOOLEAN :
       ServiceStep(Routed(Fetched(service,
                                  [pathname |-> pathname, key |-> key, flag |-> flag],
                                  getConfig(service.secretStore, service.configStore)),
                          [pathname |-> pathname, key |-> key, flag |-> flag],
                          getConfig(service.secretStore, service.configStore),
                          listing, factoryThrows))

\* the signal ends the wait; the handler goes on to client.getTreatment
Signalled(sv, signal) ==
  [sv EXCEPT !.pc = "evaluating", !.events = @ \o <<signal, "getTreatment">>]

SDK_READY ==
  /\ service.pc = "waiting"
  /\ ServiceStep(Signalled(service, "SDK_READY"))

SDK_READY_TIMED_OUT ==
  /\ service.pc = "waiting"
  /\ ServiceStep(Signalled(service, "SDK_READY_TIMED_OUT"))

\* the SDK reads the store through SplitStorageWrapper(kvStore)
storageRead ==
  /\ service.pc \in {"waiting", "evaluating"}
  /\ service.reads < MaxReads
  /\ ServiceStep([service EXCEPT !.reads = @ + 1])

\* getTreatment gives a treatment: client.destroy(), then the page
getTreatmentResolves ==
  /\ service.pc = "evaluating"
  /\ \E treatment \in Treatments :
       ServiceStep(Answered([service EXCEPT !.events = @ \o <<"destroy">>],
                            Response(200, TextHtml, "result",
                                     <<service.key, service.featureFlagName,
                                       Str(<<treatment>>)>>)))

\* getTreatment throws: the catch answers
getTreatmentRejects ==
  /\ service.pc = "evaluating"
  /\ ServiceStep(Answered([service EXCEPT !.log = @ \o <<"Error getting treatment:">>],
                          CatchResponse))

ServiceNext ==
  \/ handleRequest \/ SDK_READY \/ SDK_READY_TIMED_OUT \/ storageRead
  \/ getTreatmentResolves \/ getTreatmentRejects

ServiceSpec == ServiceInit /\ [][ServiceNext]_vars

(***************************************************************************)
(* The sync script, one run: the check of the environment, the start of    *)
(* the synchronization, the synchronizer's callback, the exit.             *)
(***************************************************************************)
\* SPLIT_SDK_KEY.substring(0, 10)
KeyPrefixLen == 10

\* s.substring(0, n) of a string
Substring0(cs, n) == SubSeq(cs, 1, IF Len(cs) < n THEN Len(cs) ELSE n)

Line(text, arg) == [text |-> text, arg |-> arg]

\* !FASTLY_API_TOKEN || !SPLIT_SDK_KEY || !KV_STORE_ID
MissingEnv(env) ==
  ~Truthy(env.FASTLY_API_TOKEN) \/ ~Truthy(env.SPLIT_SDK_KEY) \/ ~Truthy(env.KV_STORE_ID)

MissingEnv_log ==
  <<Line("Missing required environment variables:", Undefined),
    Line("   FASTLY_API_TOKEN - Your Fastly API token", Undefined),
    Line("   SPLIT_SDK_KEY - Your Harness FME SDK key", Undefined),
    Line("   KV_STORE_ID - Your Fastly KV Store ID", Undefined)>>

Exited(sc, code) == [sc EXCEPT !.pc = "exited", !.code = code]

\* the top of the script: process.exit(1) when a variable is missing or empty
environmentCheck(sc) ==
  IF MissingEnv(sc.env)
    THEN Exited([sc EXCEPT !.log = @ \o MissingEnv_log], 1)
    ELSE [sc EXCEPT !.pc = "checked"]

\* the first lines syncHarnessFMEToFastly writes
syncHarnessFMEToFastly_log(env) ==
  <<Line("Starting Harness FME -> Fastly KV Store synchronization...", Undefined),
    Line("   KV Store ID:", env.KV_STORE_ID),
    Line("   Harness FME SDK Key:", Str(Substring0(env.SPLIT_SDK_KEY.s, KeyPrefixLen))),
    Line("", Undefined)>>

\* .catch((error) => { console.error('Fatal error:', error); process.exit(1) })
Rejected(sc) == Exited([sc EXCEPT !.log = @ \o <<Line("Fatal error:", Undefined)>>], 1)

\* .then(() => process.exit(0))
Resolved(sc) == Exited(sc, 0)

\* syncHarnessFMEToFastly up to synchronizer.execute.  throws: new
\* Synchronizer or execute throws, which rejects the promise
syncHarnessFMEToFastly(sc, throws) ==
  IF throws
    THEN Rejected([sc EXCEPT !.log = @ \o syncHarnessFMEToFastly_log(sc.env)])
    ELSE [sc EXCEPT !.pc = "executing", !.log = @ \o syncHarnessFMEToFastly_log(sc.env)]

\* the callback resolving whatever it is given
Callback_Resolves(sc, error) ==
  Resolved([sc EXCEPT !.reported = IF Truthy(error) THEN "error" ELSE "ok",
                      !.log = @ \o <<Line("Synchronization completed successfully!", Undefined)>>])

\* the callback given to synchronizer.execute, and the exit that follows
Callback(sc, error) ==
  IF Truthy(error)
    THEN Rejected([sc EXCEPT !.reported = "error",
                             !.log = @ \o <<Line("Synchronization failed:", Undefined)>>])
    ELSE Resolved([sc EXCEPT !.reported = "ok",
                             !.log = @ \o <<Line("Synchronization completed successfully!", Undefined)>>])

\* a variable of the environment: not set, empty, or one of two values
EnvValues == {Undefined, Str(<<>>), Str(<<"v">>), Str(<<"w">>)}

\* what the synchronizer gives its callback: nothing, null, or an error
Errors == {Undefined, Null, Obj(<< <<"m">> >>, <<Str(<<"e">>)>>)}

ScriptInit ==
  /\ AdaptersIdle
  /\ service = NoService
  /\ calls = NoCalls
  /\ \E token \in EnvValues, key \in EnvValues, id \in EnvValues :
       script = [pc |-> "start",
                 env |-> [FASTLY_API_TOKEN |-> token, SPLIT_SDK_KEY |-> key,
                          KV_STORE_ID |-> id],
                 log |-> <<>>, reported |-> "none", code |-> 0]

ScriptStep(sc) ==
  /\ script' = sc
  /\ UNCHANGED <<workload, store, hasStore, last, prev, added, service, calls>>

checkEnvironment ==
  /\ script.pc = "start"
  /\ ScriptStep(environmentCheck(script))

startSync ==
  /\ script.pc = "checked"
  /\ \E throws \in BOOLEAN : ScriptStep(syncHarnessFMEToFastly(script, throws))

executeCallback ==
  /\ script.pc = "executing"
  /\ \E error \in Errors : ScriptStep(Callback(script, error))

ScriptNext == checkEnvironment \/ startSync \/ executeCallback

ScriptSpec == ScriptInit /\ [][ScriptNext]_vars

(***************************************************************************)
(* Concurrent calls: several callers (requests at the edge, or runs of the *)
(* sync script) each make one getAndSet or incr on the same key of the     *)
(* same store.  A call gives way at each await: between its getValue and   *)
(* its setValue the other calls may read and write.                        *)
(***************************************************************************)
\* the number of concurrent calls
NumCalls == 2

Callers == 1..NumCalls

\* getValue(key) of the adapter the calls go through
Via_getValue(ad, st, key) ==
  IF ad = "edge" THEN Edge_getValue(st, key, FALSE) ELSE Sync_getValue(st, key, FALSE)

\* setValue(key, value) of the adapter the calls go through
Via_setValue(ad, st, key, value) ==
  IF ad = "edge" THEN Edge_setValue(st, key, value, FALSE).st
  ELSE Sync_setValue(st, key, value, FALSE).st

\* const oldValue = await getValue(key), and const current = await getValue(key)
AfterRead(c, p, value) ==
  [c EXCEPT !.procs[p].pc = "read", !.procs[p].seen = value]

\* getAndSet: await setValue(key, value); return oldValue
getAndSet_newValue(proc) == proc.arg

getAndSet_return(proc) == proc.seen

\* incr: newValue = (current || 0) + increment; await setValue(key, newValue);
\* return newValue
incr_newValue(proc) == JsAdd(OrElse(proc.seen, Num(0)), proc.arg)

incr_return(proc) == incr_newValue(proc)

AfterWrite(c, p, ret) == [c EXCEPT !.procs[p].pc = "done", !.procs[p].ret = ret]

\* what the key holds at the start: nothing, or a number
ConcurrentEntries == {Absent, Entry(<<"0">>)}

ConcurrentInit ==
  /\ workload = "none"
  /\ hasStore = TRUE
  /\ \E e \in ConcurrentEntries :
       store = [ad \in Adapters |-> [key \in Keys |-> IF key = KeyList[1] THEN e ELSE Absent]]
  /\ last = NoCall
  /\ prev = NoPrev
  /\ added = [ad \in Adapters |-> [key \in Keys |-> Unknown]]
  /\ service = NoService
  /\ script = NoScript
  /\ \E ad \in Adapters, ops \in [Callers -> {"getAndSet", "incr"}] :
       calls = [ad |-> ad, key |-> KeyList[1],
                initial |-> Decoded(store[ad][KeyList[1]]),
                procs |-> [p \in Callers |->
                             [op |-> ops[p],
                              arg |-> IF ops[p] = "incr" THEN Num(1) ELSE Num(p),
                              pc |-> "called", seen |-> Undefined, ret |-> Undefined]]]

ConcurrentStep(c, st) ==
  /\ calls' = c
  /\ store' = [store EXCEPT ![calls.ad] = st]
  /\ UNCHANGED <<workload, hasStore, last, prev, added, service, script>>

getAndSet_read ==
  \E p \in Callers :
    /\ calls.procs[p].op = "getAndSet"
    /\ calls.procs[p].pc = "called"
    /\ ConcurrentStep(AfterRead(calls, p, Via_getValue(calls.ad, store[calls.ad], calls.key)),
                      store[calls.ad])

getAndSet_write ==
  \E p \in Callers :
    /\ calls.procs[p].op = "getAndSet"
    /\ calls.procs[p].pc = "read"
    /\ ConcurrentStep(AfterWrite(calls, p, getAndSet_return(calls.procs[p])),
                      Via_setValue(calls.ad, store[calls.ad], calls.key,
                                   getAndSet_newValue(calls.procs[p])))

incr_read ==
  \E p \in Callers :
    /\ calls.procs[p].op = "incr"
    /\ calls.procs[p].pc = "called"
    /\ ConcurrentStep(AfterRead(calls, p, Via_getValue(calls.ad, store[calls.ad], calls.key)),
                      store[calls.ad])

incr_write ==
  \E p \in Callers :
    /\ calls.procs[p].op = "incr"
    /\ calls.procs[p].pc = "read"
    /\ ConcurrentStep(AfterWrite(calls, p, incr_return(calls.procs[p])),
                      Via_setValue(calls.ad, store[calls.ad], calls.key,
                                   incr_newValue(calls.procs[p])))

ConcurrentNext == getAndSet_read \/ getAndSet_write \/ incr_read \/ incr_write

ConcurrentSpec == ConcurrentInit /\ [][ConcurrentNext]_vars

(***************************************************************************)
(* Properties of the adapters.                                             *)
(***************************************************************************)
ObjA1 == Obj(<< <<"a">> >>, <<Num(1)>>)

\* C1: when no request to the store fails, a get(k) that follows set(k, v)
\* returns a value equal to v, in both adapters.
C1_SetThenGet ==
  (last.op = "get" /\ CleanBoth(last) /\ prev.op = "set" /\ prev.key = last.key)
    => \A ad \in Adapters : last.res[ad] = prev.arg

\* set("a", {"a":1}) then get("a"), both served by the store
C1_Witness ==
  /\ last.op = "get" /\ CleanBoth(last)
  /\ prev.op = "set" /\ prev.key = last.key /\ prev.arg = ObjA1

\* C2: served by the store without failure, del(k) returns true, also when k
\* was absent, and a get(k) that follows it returns null, in both adapters.
C2_DelThenGet ==
  /\ (last.op = "del" /\ CleanBoth(last)) => \A ad \in Adapters : last.res[ad] = Bool(TRUE)
  /\ (last.op = "get" /\ CleanBoth(last) /\ prev.op = "del" /\ prev.key = last.key)
       => \A ad \in Adapters : last.res[ad] = Null

\* del of a key that was absent already
C2_Witness ==
  /\ last.op = "del" /\ CleanBoth(last)
  /\ \A ad \in Adapters : ~last.before[ad][last.key].has /\ last.res[ad] = Bool(TRUE)

\* C3: no operation of either adapter raises to its caller, whatever is
\* stored, whatever the arguments, whichever request fails, with or without
\* a store handle.
C3_NeverRaises == \A ad \in Adapters : ~last.raised[ad]

\* C4: when a request to the store fails during an operation, the result is
\* the safe default of the operation: null for get, getAndSet, incr and decr,
\* false for set, del and itemContains, an empty list for getKeysByPrefix and
\* getItems, null at the failed index for getMany.
C4_SafeDefaultOnFailure ==
  \A ad \in Adapters :
    (last.fs # {} /\ ~last.raised[ad]) =>
      CASE last.op \in {"get", "getAndSet", "incr", "decr"} -> last.res[ad] = Null
        [] last.op \in {"set", "del", "itemContains"} -> last.res[ad] = Bool(FALSE)
        [] last.op \in {"getKeysByPrefix", "getItems"} -> last.res[ad] = Arr(<<>>)
        [] last.op = "getMany" -> \A i \in last.fs : last.res[ad].a[i] = Null
        [] OTHER -> TRUE

NoDup(vs) == \A i, j \in 1..Len(vs) : vs[i] = vs[j] => i = j

NoDupArray(v) == IsArray(v) /\ NoDup(v.a)

\* C5: served by the store without failure, a second addItems(key, items)
\* right after the first leaves the store as the first left it; and a key
\* that was absent and has since been written by addItems calls only holds an
\* array without duplicates.
C5_AddItemsIdempotent ==
  /\ (last.op = "addItems" /\ CleanBoth(last)
        /\ prev.op = "addItems" /\ prev.key = last.key /\ prev.arg = last.arg)
       => store = last.before
  /\ \A ad \in Adapters, key \in Keys :
       (added[ad][key].pure /\ store[ad][key].has)
         => NoDupArray(Decoded(store[ad][key]))

\* addItems(k, [x,y]) twice in a row on a key holding [y,z]
C5_Witness ==
  /\ last.op = "addItems" /\ CleanBoth(last)
  /\ prev.op = "addItems" /\ prev.key = last.key /\ prev.arg = last.arg
  /\ last.arg = Arr(<<X, Y>>)
  /\ \A ad \in Adapters : Decoded(store[ad][last.key]) = Arr(<<Y, Z, X>>)

\* C6: when a key was absent and has since been written only by addItems
\* calls served without failure, getItems returns a list whose set of
\* elements is the union of the item lists of those calls.
C6_GetItemsIsUnion ==
  \A ad \in Adapters :
    (last.op = "getItems" /\ Clean(last, ad) /\ added[ad][last.key].known)
      => (IsArray(last.res[ad]) /\ Range(last.res[ad].a) = added[ad][last.key].elems)

\* addItems(s, [x,y]), addItems(s, [y,z]), getItems(s) from an absent s
C6_Witness ==
  /\ last.op = "getItems" /\ CleanBoth(last)
  /\ \A ad \in Adapters :
       /\ added[ad][last.key].known /\ added[ad][last.key].elems = {X, Y, Z}
       /\ last.res[ad] = Arr(<<X, Y, Z>>)

\* C7: served by the store without failure, incr(k, n) on an absent k returns
\* n and leaves n stored, decr(k, n) returns 0 - n and leaves 0 - n stored;
\* an omitted n is 1.
C7_IncrDecrFromZero ==
  \A ad \in Adapters :
    (last.op \in {"incr", "decr"} /\ Clean(last, ad) /\ ~last.before[ad][last.key].has)
      => LET n == IF last.arg = Undefined THEN 1 ELSE last.arg.n
             expected == Num(IF last.op = "incr" THEN n ELSE 0 - n)
         IN  /\ last.res[ad] = expected
             /\ store[ad][last.key].has
             /\ Decoded(store[ad][last.key]) = expected

\* decr(k) on an absent k
C7_Witness ==
  /\ last.op = "decr" /\ last.arg = Undefined /\ CleanBoth(last)
  /\ \A ad \in Adapters : ~last.before[ad][last.key].has /\ last.res[ad] = Num(0 - 1)

\* C8: every key getKeysByPrefix(p) returns starts with p and is present in
\* the store; when the list request fails the result is the empty list.
C8_KeysByPrefix ==
  \A ad \in Adapters :
    last.op = "getKeysByPrefix" =>
      /\ IsArray(last.res[ad])
      /\ \A i \in 1..Len(last.res[ad].a) :
           /\ last.res[ad].a[i].t = "str"
           /\ IsPrefix(last.key, last.res[ad].a[i].s)
           /\ last.res[ad].a[i].s \in Keys
           /\ store[ad][last.res[ad].a[i].s].has
      /\ 1 \in last.fs => last.res[ad] = Arr(<<>>)

\* a prefix that one present key has and another present key has not
C8_Witness ==
  /\ last.op = "getKeysByPrefix" /\ CleanBoth(last)
  /\ \A ad \in Adapters :
       /\ last.res[ad] = Arr(<<Str(KeyList[2])>>)
       /\ store[ad][KeyList[1]].has

\* C9: getMany(keys) returns a list as long as keys whose i-th element is
\* what get(keys[i]) returns (null when the key is absent or its read fails),
\* in whatever order the reads complete.
C9_GetManyAligned ==
  (last.op = "getMany" /\ IsArray(last.arg)) =>
    /\ IsArray(last.res.edge) /\ Len(last.res.edge.a) = Len(last.arg.a)
    /\ IsArray(last.res.sync) /\ Len(last.res.sync.a) = Len(last.arg.a)
    /\ \A i \in 1..Len(last.arg.a) :
         /\ last.res.edge.a[i]
              = Edge_get(store.edge, hasStore, IF i \in last.fs THEN {1} ELSE {}, last.arg.a[i].s).res
         /\ last.res.sync.a[i]
              = Sync_get(store.sync, IF i \in last.fs THEN {1} ELSE {}, last.arg.a[i].s).res

\* two reads completing in the reverse order, with different results
C9_Witness ==
  /\ last.op = "getMany" /\ CleanBoth(last) /\ last.order = <<2, 1>>
  /\ \A ad \in Adapters : Len(last.res[ad].a) = 2 /\ last.res[ad].a[1] # last.res[ad].a[2]

\* C10: pushItems and popItems leave the store as it was, popItems returns
\* an empty list and getItemsCount returns 0, also right after a pushItems.
C10_QueueNoOps ==
  \A ad \in Adapters :
    /\ last.op \in {"pushItems", "popItems", "getItemsCount"}
         => (store[ad] = last.before[ad] /\ ~last.raised[ad])
    /\ last.op = "popItems" => last.res[ad] = Arr(<<>>)
    /\ last.op = "getItemsCount" => last.res[ad] = Num(0)

\* getItemsCount right after a pushItems, on a store that holds something
C10_Witness ==
  /\ last.op = "getItemsCount" /\ prev.op = "pushItems" /\ prev.key = last.key
  /\ \A ad \in Adapters : last.res[ad] = Num(0) /\ \E key \in Keys : store[ad][key].has

\* what the call read under its key: null when the read failed
ReadBefore(ad) ==
  IF 1 \in last.fs THEN Null ELSE Decoded(last.before[ad][last.key])

\* the requests of the calls other than addItems, for an adapter given a store
FixedRequests(ad) ==
  /\ last.op = "get" => last.reqs[ad] = <<"get">>
  /\ last.op = "set" => last.reqs[ad] = <<"put">>
  /\ last.op = "del" => last.reqs[ad] = <<"delete">>
  /\ last.op = "getKeysByPrefix" => last.reqs[ad] = <<"list">>
  /\ (last.op = "getMany" /\ IsArray(last.arg))
       => last.reqs[ad] = [i \in 1..Len(last.arg.a) |-> "get"]
  /\ last.op \in {"getAndSet", "incr", "decr"} => last.reqs[ad] = <<"get", "put">>

\* C16 as stated: with a store given to the adapter, get, set, del and
\* getKeysByPrefix send exactly one request, getMany one read per key, and
\* getAndSet, incr, decr and addItems (given an array of items) one read
\* followed by one write, whether or not a request fails.
C16_OneReadOneWrite ==
  hasStore =>
    \A ad \in Adapters :
      /\ FixedRequests(ad)
      /\ (last.op = "addItems" /\ IsArray(last.arg)) => last.reqs[ad] = <<"get", "put">>

\* C16, amended: no request is sent twice; get, set, del, getKeysByPrefix,
\* getMany, getAndSet, incr and decr send the requests stated, whether or not
\* a request fails; addItems sends one read, followed by one write exactly
\* when what it read (or [] for nothing) and its items can both be spread,
\* and by no write otherwise.
C16_NoRetry ==
  hasStore =>
    \A ad \in Adapters :
      /\ FixedRequests(ad)
      /\ last.op = "addItems"
           => last.reqs[ad] =
                IF Iterable(OrElse(ReadBefore(ad), Arr(<<>>))) /\ Iterable(last.arg)
                  THEN <<"get", "put">> ELSE <<"get">>

\* an incr whose read and whose write both failed, and a get whose read failed
C16_Witness ==
  /\ hasStore
  /\ \/ last.op = "incr" /\ last.fs = {1, 2}
     \/ last.op = "get" /\ last.fs = {1}
  /\ \A ad \in Adapters : Len(last.reqs[ad]) = (IF last.op = "incr" THEN 2 ELSE 1)

\* the call was given the arrays the storage interface asks for
ArraysGiven ==
  last.op \in {"addItems", "removeItems", "getMany"} => IsArray(last.arg)

\* C17: given stores, the two adapters run side by side with the same calls
\* (with arrays where the interface asks for arrays) and the same failing
\* requests agree: both raise or both return the same result, and their
\* stores hold the same content.
C17_AdaptersEquivalent ==
  (hasStore /\ ArraysGiven) =>
    /\ last.raised.edge = last.raised.sync
    /\ last.res.edge = last.res.sync
    /\ store.edge = store.sync

(***************************************************************************)
(* Properties of the edge service.                                         *)
(***************************************************************************)
Routes == {"/", "/get-treatment", "/status"}

\* C11 as stated: a request whose path is none of /, /get-treatment, /status
\* is answered 404, whatever the configuration and whether or not the KV
\* store can be opened.
C11_NotFoundAlways ==
  (service.pc = "done" /\ service.request.pathname \notin Routes)
    => service.response.status = 404

\* C11, amended: a request whose path is none of /, /get-treatment, /status
\* is answered 404 when the KV store named by the configuration can be
\* opened, whatever the configuration; when it cannot, the answer is the 500
\* of the missing store, sent before the path is looked at.
C11_NotFound ==
  (service.pc = "done" /\ service.request.pathname \notin Routes)
    => /\ service.kvExists => (service.response.status = 404
                                /\ service.response.type = TextPlain)
       /\ ~service.kvExists => service.response.status = 500

\* /sync answered 404 with the KV store open and no secret store
C11_Witness ==
  /\ service.pc = "done"
  /\ service.request.pathname = "/sync"
  /\ service.kvExists
  /\ ~service.secretStore.avail
  /\ service.response.status = 404

\* C12: when the KV store cannot be opened the answer is 500, text/plain; a
\* /get-treatment request with the store open and the placeholder as SDK key
\* is answered 500, text/plain, and for no request with the placeholder as
\* SDK key is a client constructed or the store read.
C12_ServerErrors ==
  /\ (service.pc = "done" /\ ~service.kvExists)
       => (service.response.status = 500 /\ service.response.type = TextPlain)
  /\ (service.pc # "idle" /\ service.config.SPLIT_SDK_KEY = DEFAULTS.SPLIT_SDK_KEY)
       => /\ service.events = <<>>
          /\ service.reads = 0
          /\ (service.kvExists /\ service.request.pathname = "/get-treatment")
               => /\ service.pc = "done"
                  /\ service.response.status = 500
                  /\ service.response.type = TextPlain

\* /get-treatment answered 500 for the placeholder, with the KV store open
C12_Witness ==
  /\ service.pc = "done"
  /\ service.kvExists
  /\ service.request.pathname = "/get-treatment"
  /\ service.config.SPLIT_SDK_KEY = DEFAULTS.SPLIT_SDK_KEY
  /\ service.response.status = 500
  /\ service.response.body.kind = "Error: Harness FME SDK key not configured."

NonEmpty(v) == v.t = "str" /\ v.s # <<>>

\* C14: the configuration getConfig returns has a string in each of its four
\* fields; the SDK key is the default when the secret store is unavailable
\* or has no entry, and the secret when that is not empty; each other field
\* is the default when the config store is unavailable or its entry is
\* missing or empty, and the entry when that is not empty.
C14_ConfigDefaults ==
  service.pc # "idle" =>
    /\ \A f \in DOMAIN DEFAULTS : service.config[f].t = "str"
    /\ (~service.secretStore.avail \/ service.secretStore.entry = Null)
         => service.config.SPLIT_SDK_KEY = DEFAULTS.SPLIT_SDK_KEY
    /\ (service.secretStore.avail /\ NonEmpty(service.secretStore.entry))
         => service.config.SPLIT_SDK_KEY = service.secretStore.entry
    /\ \A f \in ConfigFields :
         IF service.configStore.avail /\ NonEmpty(service.configStore.entries[f])
           THEN service.config[f] = service.configStore.entries[f]
           ELSE service.config[f] = DEFAULTS[f]

\* no secret store, and a config store with one value, one empty entry and
\* one missing entry
C14_Witness ==
  /\ service.pc # "idle"
  /\ ~service.secretStore.avail
  /\ service.configStore.avail
  /\ service.configStore.entries.FEATURE_FLAG_NAME = Str(<<"c">>)
  /\ service.configStore.entries.KV_STORE_NAME = Str(<<>>)
  /\ service.configStore.entries.DEFAULT_USER_KEY = Null
  /\ service.config.FEATURE_FLAG_NAME = Str(<<"c">>)
  /\ service.config.KV_STORE_NAME = DEFAULTS.KV_STORE_NAME

\* C18: the client is made for the key parameter when that is given and not
\* empty and for the configured DEFAULT_USER_KEY otherwise, and the flag
\* evaluated (and shown in the answer) is the feature-flag parameter when
\* that is given and not empty and the configured FEATURE_FLAG_NAME otherwise.
C18_QueryParameters ==
  service.events # <<>> =>
    /\ service.key = IF NonEmpty(service.request.key) THEN service.request.key
                     ELSE service.config.DEFAULT_USER_KEY
    /\ service.featureFlagName =
         IF NonEmpty(service.request.flag) THEN service.request.flag
         ELSE service.config.FEATURE_FLAG_NAME
    /\ service.response.body.kind = "result"
         => (service.response.body.parts[1] = service.key
             /\ service.response.body.parts[2] = service.featureFlagName)

\* an evaluation answered for an empty key parameter and a given flag, and
\* one for a given key and no flag parameter
C18_Witness ==
  /\ service.response.body.kind = "result"
  /\ \/ /\ service.request.key = Str(<<>>)
        /\ service.request.flag = Str(<<"u">>)
        /\ service.key = service.config.DEFAULT_USER_KEY
        /\ service.featureFlagName = Str(<<"u">>)
     \/ /\ service.request.key = Str(<<"u">>)
        /\ service.request.flag = Null
        /\ service.key = Str(<<"u">>)
        /\ service.featureFlagName = service.config.FEATURE_FLAG_NAME

EventOrder == <<"construct", "ready", "getTreatment", "destroy">>

EventKinds(events) ==
  [i \in 1..Len(events) |->
     IF events[i] \in {"SDK_READY", "SDK_READY_TIMED_OUT"} THEN "ready" ELSE events[i]]

\* C19: the events of a /get-treatment request are at every moment a
\* beginning of: client constructed, readiness signal (SDK_READY or
\* SDK_READY_TIMED_OUT), getTreatment, client destroyed; so getTreatment is
\* called once and never before a signal.  An evaluation that gives a
\* treatment goes through all four and then answers 200 with HTML, and 200 is
\* the answer of /get-treatment only then.  (An evaluation that throws ends
\* after getTreatment with the 500 of the catch.)
C19_EventOrder ==
  /\ Len(service.events) <= Len(EventOrder)
  /\ EventKinds(service.events) = SubSeq(EventOrder, 1, Len(service.events))
  /\ service.events # <<>> => service.request.pathname = "/get-treatment"
  /\ (service.request.pathname = "/get-treatment" /\ service.response.status = 200)
       => Len(service.events) = Len(EventOrder)
  /\ Len(service.events) = Len(EventOrder)
       => /\ service.pc = "done"
          /\ service.response.status = 200
          /\ service.response.type = TextHtml
  /\ (service.pc = "done" /\ service.events # <<>>
        /\ Len(service.events) < Len(EventOrder))
       => service.response = CatchResponse

\* an evaluation after the timeout signal, answered 200
C19_Witness ==
  /\ service.pc = "done"
  /\ service.events = <<"construct", "SDK_READY_TIMED_OUT", "getTreatment", "destroy">>
  /\ service.response.status = 200

(***************************************************************************)
(* Properties of the sync script.                                          *)
(***************************************************************************)
\* C13: the script that has exited did so with code 1 when a variable of the
\* environment was missing or empty, with code 1 when the synchronizer
\* reported an error, and with code 0 exactly when the callback reported no
\* error.
C13_ExitCodes ==
  script.pc = "exited" =>
    /\ script.code \in {0, 1}
    /\ MissingEnv(script.env) => (script.code = 1 /\ script.reported = "none")
    /\ script.reported = "error" => script.code = 1
    /\ script.code = 0 <=> script.reported = "ok"

\* an exit with code 0 after a callback given null, and with code 1 after an
\* error
C13_Witness ==
  /\ script.pc = "exited"
  /\ \/ script.code = 0 /\ script.reported = "ok"
     \/ script.code = 1 /\ script.reported = "error"
  /\ ~MissingEnv(script.env)

\* C15: the output of a run that started the synchronization is what it
\* would be for any other SDK key and any other API token that are set: no
\* part of either is written.
C15_NoSecretInOutput ==
  script.pc \in {"executing", "exited"} /\ ~MissingEnv(script.env) =>
    \A key \in EnvValues, token \in EnvValues :
      (Truthy(key) /\ Truthy(token))
        => SubSeq(script.log, 1, Len(syncHarnessFMEToFastly_log(script.env)))
             = syncHarnessFMEToFastly_log([script.env EXCEPT !.SPLIT_SDK_KEY = key,
                                                             !.FASTLY_API_TOKEN = token])

(***************************************************************************)
(* Properties of concurrent calls.                                         *)
(***************************************************************************)
AllDone == \A p \in Callers : calls.procs[p].pc = "done"

\* the calls' results are those of the calls made one after the other in
\* this order
SequentialGetAndSet(order) ==
  /\ calls.procs[order[1]].ret = calls.initial
  /\ \A i \in 2..NumCalls : calls.procs[order[i]].ret = calls.procs[order[i - 1]].arg
  /\ Decoded(store[calls.ad][calls.key]) = calls.procs[order[NumCalls]].arg

\* C20: when concurrent getAndSet calls on one key, writing distinct values,
\* have all returned, the old values they returned and the value left in
\* the store are those of the calls made one after the other in some order.
C20_GetAndSetAtomic ==
  (AllDone /\ \A p \in Callers : calls.procs[p].op = "getAndSet")
    => \E order \in Perms(NumCalls) : SequentialGetAndSet(order)

(***************************************************************************)
(* Further properties of concurrent calls, of the edge service and of the  *)
(* adapters.                                                               *)
(***************************************************************************)
AllIncr == \A p \in Callers : calls.procs[p].op = "incr"

\* C21: when concurrent incr(key, 1) calls on one key have all returned,
\* with no failure of the store, the stored value is the initial value (0
\* for an absent key) plus the number of calls, and the values returned are
\* pairwise distinct.
C21_NoLostIncrement ==
  (AllDone /\ AllIncr)
    => /\ Decoded(store[calls.ad][calls.key])
            = Num(OrElse(calls.initial, Num(0)).n + NumCalls)
       /\ \A p, q \in Callers :
            calls.procs[p].ret = calls.procs[q].ret => p = q

\* C22: when the handler of /get-treatment has answered, the SDK client it
\* constructed, if any, has been destroyed.
C22_ClientDestroyed ==
  (service.pc = "done" /\ service.events # <<>>)
    => \E i \in 1..Len(service.events) : service.events[i] = "destroy"

\* C23: /get-treatment never answers 400, whatever the URL and the stores
\* behind getConfig: the key it resolves is never empty.
C23_Never400 ==
  /\ service.response.status # 400
  /\ (service.pc # "idle" /\ service.kvExists
        /\ service.request.pathname = "/get-treatment")
       => Truthy(ResolveKey(service.request, service.config))

\* /get-treatment answered for a URL without a key, or with an empty one,
\* and a config store whose DEFAULT_USER_KEY is empty
C23_Witness ==
  /\ service.pc = "done"
  /\ service.kvExists
  /\ service.request.pathname = "/get-treatment"
  /\ ~Truthy(service.request.key)
  /\ service.configStore.avail
  /\ service.configStore.entries.DEFAULT_USER_KEY = Str(<<>>)
  /\ service.response.status \in {200, 500}

\* C24: a set whose put fails returns false and leaves every key of the
\* store as it was, and a get of the same key that follows it, itself
\* without failure, returns what the key held before the set.
C24_FailedWriteChangesNothing ==
  /\ (last.op = "set" /\ 1 \in last.fs)
       => \A ad \in Adapters :
            last.res[ad] = Bool(FALSE) /\ store[ad] = last.before[ad]
  /\ (last.op = "get" /\ CleanBoth(last) /\ prev.op = "setFailed"
        /\ prev.key = last.key)
       => \A ad \in Adapters : last.res[ad] = prev.held[ad]

\* a get that returns 1 after a failed set of another value on a key holding 1
C24_Witness ==
  /\ last.op = "get" /\ CleanBoth(last)
  /\ prev.op = "setFailed" /\ prev.key = last.key
  /\ prev.arg # Num(1)
  /\ \A ad \in Adapters : prev.held[ad] = Num(1) /\ last.res[ad] = Num(1)

\* the elements of vs that are not among items, in their order
NotIn(vs, items) ==
  SelectSeq(vs, LAMBDA v : \A i \in 1..Len(items) : items[i] # v)

\* C25: a removeItems(key, items) given an array and meeting no failure, on
\* a key holding an array, leaves under the key exactly the elements that
\* are not in items, in their order, and changes no other key; on an absent
\* key or a key holding no array it sends no write and the store is as it
\* was, the key not created.
C25_RemoveItemsFrame ==
  (last.op = "removeItems" /\ CleanBoth(last) /\ IsArray(last.arg)) =>
    \A ad \in Adapters :
      IF IsArray(Decoded(last.before[ad][last.key]))
        THEN /\ Decoded(store[ad][last.key])
                  = Arr(NotIn(Decoded(last.before[ad][last.key]).a, last.arg.a))
             /\ \A k \in Keys \ {last.key} : store[ad][k] = last.before[ad][k]
        ELSE /\ store[ad] = last.before[ad]
             /\ last.reqs[ad] = <<"get">>

\* y removed from [x, y], z not being there
C25_Witness ==
  /\ last.op = "removeItems" /\ CleanBoth(last)
  /\ last.arg = Arr(<<Y, Z>>)
  /\ Decoded(last.before.edge[last.key]) = Arr(<<X, Y>>)
  /\ Decoded(store.edge[last.key]) = Arr(<<X>>)
  /\ Decoded(store.sync[last.key]) = Arr(<<X>>)

====
